---- MODULE Spec2Model ----
(***************************************************************************)
(* Calltender: a planner page that turns a free-text request into a call   *)
(* plan (POST /api/plan), lets the user fill the required slots, and       *)
(* places the call (POST /api/call).                                       *)
(*                                                                         *)
(* Conventions for JavaScript values:                                      *)
(*   - a string the code trims, scans or normalises (a slot value, the     *)
(*     request text, a destination) is a sequence of one-character         *)
(*     strings: "911" is <<"9","1","1">>;                                  *)
(*   - undefined and null of such a value are the one-element sequences    *)
(*     Undefined and Null (no real string equals them, their element has   *)
(*     more than one character);                                           *)
(*   - a string the code only passes along (a message, a provider status,  *)
(*     a call sid) is a TLA+ string, with NULL and ABSENT for null and     *)
(*     for a key that is not there;                                        *)
(*   - an optional object (plan | null, ivr?, safety?) is <<>> or <<v>>.   *)
(***************************************************************************)
EXTENDS Integers, Sequences, FiniteSets, TLC

VARIABLES
    \* -- Phone Number Normalizer run on its own
    raw, normalized, pcNorm,
    \* -- Slot merge run on its own
    mPlan, mOverrides, mFirst, mSecond, pcMerge,
    \* -- POST /api/call on the server: the deployed route, its environment,
    \*    the request being handled, what was submitted to the telephony
    \*    provider with the provider's answer, and the response
    route, env, callReq, provider, callResp, pcCall,
    \* -- POST /api/plan on the server: the request being handled, the
    \*    planning collaborator's answer, and the response
    planReq, gemini, planResp, pcPlan,
    \* -- one browser session: which of the two Home components of page.tsx
    \*    it renders, and the requests it has sent that have not completed
    view, planFlight, callFlight,
    \* -- state of the planner Home (useState, lines 28-33); manualIvr is
    \*    manualSlots.ivr, the one key of manualSlots that holds an object
    nl, planning, plan, manualSlots, manualIvr, status, calling,
    \* -- state of the chat Home (useState, lines 331-335)
    request, response, error, loading, callStatus

normVars  == <<raw, normalized, pcNorm>>
mergeVars == <<mPlan, mOverrides, mFirst, mSecond, pcMerge>>
callVars  == <<route, env, callReq, provider, callResp, pcCall>>
planVars  == <<planReq, gemini, planResp, pcPlan>>
flightVars  == <<view, planFlight, callFlight>>
plannerVars == <<nl, planning, plan, manualSlots, manualIvr, status, calling>>
chatVars    == <<request, response, error, loading, callStatus>>
pageVars    == <<flightVars, plannerVars, chatVars>>
serverVars  == <<normVars, mergeVars, callVars, planVars>>
vars == <<normVars, mergeVars, callVars, planVars, pageVars>>

----------------------------------------------------------------------------
(* JavaScript values *)

Undefined == <<"undefined">>
Null      == <<"null">>
NULL      == "<null>"
ABSENT    == "<absent>"

None    == <<>>
Some(v) == <<v>>

\* v == null (true of null and of undefined)
IsNullish(v) == v = Undefined \/ v = Null

\* if (v): a string is truthy unless it is empty
Truthy(v) == ~IsNullish(v) /\ v # <<>>

Digit      == {"0", "1", "2", "3", "4", "5", "6", "7", "8", "9"}
Whitespace == {" ", "\t"}

RECURSIVE TrimStart(_)
TrimStart(s) ==
    IF s # <<>> /\ Head(s) \in Whitespace THEN TrimStart(Tail(s)) ELSE s

RECURSIVE TrimEnd(_)
TrimEnd(s) ==
    IF s # <<>> /\ s[Len(s)] \in Whitespace
    THEN TrimEnd(SubSeq(s, 1, Len(s) - 1))
    ELSE s

\* String.prototype.trim
Trim(s) == TrimEnd(TrimStart(s))

IsDigit(c) == c \in Digit

\* t.replace(/[^\d]/g, "")
StripNonDigits(t) == SelectSeq(t, IsDigit)

\* t.startsWith(p)
StartsWith(t, p) == Len(t) >= Len(p) /\ SubSeq(t, 1, Len(p)) = p

----------------------------------------------------------------------------
(* Phone Number Normalizer: page.tsx, normalizePhoneNumber *)

MinDigits == 10

\* The normalizer with the 911 pass-through left out.
normalizePhoneNumber_no911(rawv) ==
    LET t       == Trim(IF Truthy(rawv) THEN rawv ELSE <<>>)
        hasPlus == StartsWith(t, <<"+">>)
        digits  == StripNonDigits(t)
    IN  IF t = <<>> THEN Null
        ELSE IF Len(digits) < MinDigits THEN Null
        ELSE IF hasPlus THEN <<"+">> \o digits
        ELSE IF Len(digits) = 11 /\ StartsWith(digits, <<"1">>) THEN <<"+">> \o digits
        ELSE IF Len(digits) = 10 THEN <<"+", "1">> \o digits
        ELSE <<"+">> \o digits

normalizePhoneNumber(rawv) ==
    LET t       == Trim(IF Truthy(rawv) THEN rawv ELSE <<>>)
        hasPlus == StartsWith(t, <<"+">>)
        digits  == StripNonDigits(t)
    IN  IF t = <<>> THEN Null
        ELSE IF t = <<"9", "1", "1">> THEN <<"9", "1", "1">>
        ELSE IF Len(digits) < MinDigits THEN Null
        ELSE IF hasPlus THEN <<"+">> \o digits
        ELSE IF Len(digits) = 11 /\ StartsWith(digits, <<"1">>) THEN <<"+">> \o digits
        ELSE IF Len(digits) = 10 THEN <<"+", "1">> \o digits
        ELSE <<"+">> \o digits

----------------------------------------------------------------------------
(* Bounded inputs of the normalizer *)

MaxShort  == 4
MaxDigits == 12

ShortAlphabet == {"9", "1", " ", "+", "a"}

\* every string over ShortAlphabet of length at most MaxShort
ShortStrings == UNION {[1..n -> ShortAlphabet] : n \in 0..MaxShort}

RECURSIVE Rep(_, _)
Rep(c, n) == IF n = 0 THEN <<>> ELSE <<c>> \o Rep(c, n - 1)

\* a run of n digits starting with `first`, a "-" after the third digit when sep
DigitBody(first, n, sep) ==
    IF n = 0 THEN <<>>
    ELSE IF sep /\ n > 3
         THEN <<first>> \o Rep("5", 2) \o <<"-">> \o Rep("5", n - 3)
         ELSE <<first>> \o Rep("5", n - 1)

LongStrings ==
    { lead \o plus \o DigitBody(first, n, sep) \o trail :
        lead \in {<<>>, <<" ">>}, plus \in {<<>>, <<"+">>},
        first \in {"1", "5"}, n \in 1..MaxDigits, sep \in BOOLEAN,
        trail \in {<<>>, <<" ">>, <<"x">>} }

RawInputs == ShortStrings \cup LongStrings

----------------------------------------------------------------------------
(* Call plan and slot merge: page.tsx, PlanResponse and merged (useMemo) *)

Keys == {"target", "phone", "when"}

NoSlots == [k \in Keys |-> Undefined]

\* { ...a, ...b }: a key of b wins over the same key of a
Spread(a, b) == [k \in Keys |-> IF b[k] # Undefined THEN b[k] ELSE a[k]]

DefaultIvr    == [autoNavigate |-> TRUE, sendDigits |-> <<>>, languagePref |-> ABSENT]
DefaultSafety == [emergency |-> FALSE, warn |-> NULL]

\* the base the page merges into while no plan has arrived
DefaultBase ==
    [intent   |-> "",
     slots    |-> NoSlots,
     required |-> <<"target", "phone">>,
     ivr      |-> Some(DefaultIvr),
     safety   |-> Some(DefaultSafety)]

\* slots[k] == null, not trimmed
IsMissing_noTrim(slots, k) == IsNullish(slots[k]) \/ slots[k] = <<>>

\* slots[k] == null || String(slots[k]).trim() === ""
IsMissing(slots, k) == IsNullish(slots[k]) \/ Trim(slots[k]) = <<>>

\* the filter stopping at the first missing key
FilterMissing_firstOnly(required, slots) ==
    LET idx == {i \in 1..Len(required) : IsMissing(slots, required[i])}
    IN  IF idx = {} THEN <<>>
        ELSE <<required[CHOOSE i \in idx : \A j \in idx : i <= j]>>

\* required.filter(k => missing(slots, k))
RECURSIVE FilterMissing(_, _)
FilterMissing(required, slots) ==
    IF required = <<>> THEN <<>>
    ELSE IF IsMissing(slots, Head(required))
         THEN <<Head(required)>> \o FilterMissing(Tail(required), slots)
         ELSE FilterMissing(Tail(required), slots)

\* if (slots.phone) { n = normalize(slots.phone); if (n) slots.phone = n }
NormalizePhoneSlot(slots) ==
    IF Truthy(slots["phone"])
    THEN LET n == normalizePhoneNumber(slots["phone"])
         IN  IF n # Null THEN [slots EXCEPT !["phone"] = n] ELSE slots
    ELSE slots

\* merged with `missing` taken from the planner's slots, before the overrides
merged_missingFromBase(planv, manual) ==
    LET base  == IF planv = None THEN DefaultBase ELSE planv[1]
        slots == NormalizePhoneSlot(Spread(base.slots, manual))
    IN  [intent   |-> base.intent,
         slots    |-> slots,
         required |-> base.required,
         ivr      |-> base.ivr,
         safety   |-> base.safety,
         missing  |-> FilterMissing(base.required, base.slots)]

merged(planv, manual) ==
    LET base  == IF planv = None THEN DefaultBase ELSE planv[1]
        slots == NormalizePhoneSlot(Spread(base.slots, manual))
    IN  [intent   |-> base.intent,
         slots    |-> slots,
         required |-> base.required,
         ivr      |-> base.ivr,
         safety   |-> base.safety,
         missing  |-> FilterMissing(base.required, slots)]

\* the plan part of a merge result (the result without `missing`)
PlanOf(m) ==
    [intent |-> m.intent, slots |-> m.slots, required |-> m.required,
     ivr |-> m.ivr, safety |-> m.safety]

----------------------------------------------------------------------------
(* Bounded inputs of the merge *)

PlannerSlotMaps ==
    { [target |-> t, phone |-> p, when |-> w] :
        t \in {Undefined, <<"P", "i", "z", "z", "a">>, <<" ">>},
        p \in {Undefined, Null, <<>>, <<"5", "5", "5", "-", "1", "2", "3", "-", "4", "5", "6", "7">>},
        w \in {Undefined, <<>>} }

RequiredLists ==
    { <<"target", "phone">>, <<"target", "phone", "when">>, <<>>, <<"phone", "target">> }

MergePlans ==
    {None} \cup
    { Some([intent |-> "i", slots |-> s, required |-> r, ivr |-> None, safety |-> None]) :
        s \in PlannerSlotMaps, r \in RequiredLists }

OverrideMaps ==
    { [target |-> t, phone |-> p, when |-> w] :
        t \in {Undefined, <<>>, <<"T", "h", "a", "i">>},
        p \in {Undefined, <<>>, <<" ">>, <<"1", "2", "3">>, <<"9", "1", "1">>,
               <<"5", "5", "5", "1", "2", "3", "4", "5", "6", "7">>,
               <<"+", "4", "4", " ", "2", "0", " ", "7", "9", "4", "6", " ", "0", "9", "5", "8">>},
        w \in {Undefined, <<"n", "o", "w">>} }

MergeInit ==
    /\ mPlan \in MergePlans /\ mOverrides \in OverrideMaps
    /\ mFirst = <<>> /\ mSecond = <<>> /\ pcMerge = "input"

\* merge(plan, overrides)
MergeFirst ==
    /\ pcMerge = "input"
    /\ mFirst' = Some(merged(mPlan, mOverrides))
    /\ pcMerge' = "first"
    /\ UNCHANGED <<mPlan, mOverrides, mSecond, normVars, callVars, planVars, pageVars>>

\* merge(merge(plan, overrides).plan, {})
MergeSecond ==
    /\ pcMerge = "first"
    /\ mSecond' = Some(merged(Some(PlanOf(mFirst[1])), NoSlots))
    /\ pcMerge' = "second"
    /\ UNCHANGED <<mPlan, mOverrides, mFirst, normVars, callVars, planVars, pageVars>>

MergeNext == MergeFirst \/ MergeSecond

----------------------------------------------------------------------------
(* POST /api/call: api/call/route.ts *)

\* !v of an environment variable or a message: unset or empty
Falsy(v) == v \in {ABSENT, NULL, ""}

DefaultVoiceUrl == "http://demo.twilio.com/docs/voice.xml"

\* NextResponse.json(body, { status })
CallResult(http, sid, st, err, to, from) ==
    [http |-> http, sid |-> sid, status |-> st, error |-> err,
     to |-> to, from |-> from]

\* body.to?.trim()
TrimmedTo(body) == IF IsNullish(body.to) THEN Undefined ELSE Trim(body.to)

\* (body.from || process.env.TWILIO_FROM_NUMBER || "").trim()
ResolvedFrom(e, body) ==
    Trim(IF Truthy(body.from) THEN body.from
         ELSE IF Truthy(e.fromNumber) THEN e.fromNumber
         ELSE <<>>)

\* body.url || process.env.TWILIO_VOICE_URL || the demo document
ResolvedUrl(e, body) ==
    IF ~Falsy(body.url) THEN body.url
    ELSE IF ~Falsy(e.voiceUrl) THEN e.voiceUrl
    ELSE DefaultVoiceUrl

\* the catch block: { sid: null, status: "invalid-request", error: message }
InvalidRequest(message) ==
    CallResult(400, NULL, "invalid-request", message, Undefined, Undefined)

\* what the handler does with the provider's answer o
AfterProvider(o, to, from) ==
    IF o.kind = "throw" THEN InvalidRequest(o.message)
    ELSE IF o.isJson /\ o.json = "invalid" THEN InvalidRequest("Unexpected token")
    ELSE IF ~o.ok
    THEN CallResult(o.http, NULL, "twilio-error",
                    IF ~o.isJson THEN o.text
                    ELSE IF o.json = "object" /\ ~Falsy(o.message) THEN o.message
                    ELSE "Twilio call failed.",
                    Undefined, Undefined)
    ELSE CallResult(200,
                    IF ~o.isJson THEN NULL
                    ELSE IF o.json = "object" /\ o.sid # ABSENT THEN o.sid
                    ELSE NULL,
                    IF ~o.isJson THEN "queued"
                    ELSE IF o.json = "object" /\ o.status \notin {ABSENT, NULL} THEN o.status
                    ELSE "queued",
                    ABSENT, to, from)

\* POST of the Twilio-backed route: the response, and the request submitted
\* to the provider (None when the handler returned before the fetch)
POSTCall(e, req, o) ==
    IF Falsy(e.accountSid) \/ Falsy(e.authToken)
    THEN [resp |-> CallResult(500, NULL, "missing-credentials",
                              "Twilio credentials are not configured.",
                              Undefined, Undefined),
          submitted |-> None]
    ELSE IF req.parse = "throws"
    THEN [resp |-> InvalidRequest("Unexpected end of JSON input"), submitted |-> None]
    ELSE IF req.parse = "null"
    THEN [resp |-> InvalidRequest("Cannot read properties of null"), submitted |-> None]
    ELSE LET to   == TrimmedTo(req.body)
             from == ResolvedFrom(e, req.body)
             url  == ResolvedUrl(e, req.body)
         IN  IF ~Truthy(to)
             THEN [resp |-> CallResult(400, NULL, "missing-destination",
                                       "Destination phone required.",
                                       Undefined, Undefined),
                   submitted |-> None]
             ELSE IF from = <<>>
             THEN [resp |-> CallResult(400, NULL, "missing-source",
                                       "Set TWILIO_FROM_NUMBER or include from.",
                                       Undefined, Undefined),
                   submitted |-> None]
             ELSE [resp |-> AfterProvider(o, to, from),
                   submitted |-> Some([To |-> to, From |-> from, Url |-> url,
                                       account |-> e.accountSid])]

\* POST of the second route in the file: no provider, a fixed sid
POSTCallDemo(req) ==
    IF req.parse = "throws"
    THEN [resp |-> InvalidRequest("Unexpected end of JSON input"), submitted |-> None]
    ELSE IF req.parse = "null"
    THEN [resp |-> InvalidRequest("Cannot read properties of null"), submitted |-> None]
    ELSE LET to == TrimmedTo(req.body)
         IN  IF ~Truthy(to)
             THEN [resp |-> CallResult(400, NULL, "missing-destination",
                                       "Destination phone required.",
                                       Undefined, Undefined),
                   submitted |-> None]
             ELSE [resp |-> CallResult(200, "demo-call", "queued", ABSENT, to, Undefined),
                   submitted |-> None]

----------------------------------------------------------------------------
(* Bounded inputs of POST /api/call *)

SourceNumber == <<"+", "1", "5", "5", "5", "0", "0", "0", "0", "0", "0", "0">>
Canonical    == <<"+", "1", "5", "5", "5", "1", "2", "3", "4", "5", "6", "7">>

Envs ==
    [accountSid : {ABSENT, "", "AC1"},
     authToken  : {ABSENT, "tok"},
     fromNumber : {Undefined, SourceNumber},
     voiceUrl   : {ABSENT, "https://voice.example/twiml"}]

CallBodies ==
    [to   : {Undefined, Null, <<>>, <<" ">>, <<"1", "2", "3">>, <<"9", "1", "1">>,
             Canonical, <<" ">> \o Canonical},
     from : {Undefined, <<" ">>, SourceNumber},
     url  : {ABSENT, "https://other.example/twiml"}]

EmptyBody == [to |-> Undefined, from |-> Undefined, url |-> ABSENT]

CallRequests ==
    {[parse |-> "ok", body |-> b] : b \in CallBodies}
    \cup {[parse |-> "throws", body |-> EmptyBody], [parse |-> "null", body |-> EmptyBody]}

ProviderResponse(ok, http, isJson, json, sid, st, message, text) ==
    [kind |-> "response", ok |-> ok, http |-> http, isJson |-> isJson, json |-> json,
     sid |-> sid, status |-> st, message |-> message, text |-> text]

ProviderOutcomes ==
    { [kind |-> "throw", ok |-> FALSE, http |-> 0, isJson |-> FALSE, json |-> "none",
       sid |-> ABSENT, status |-> ABSENT, message |-> "fetch failed", text |-> ""],
      ProviderResponse(TRUE, 201, TRUE, "object", "CA1", "queued", ABSENT, ""),
      ProviderResponse(TRUE, 201, TRUE, "object", "CA1", ABSENT, ABSENT, ""),
      ProviderResponse(TRUE, 201, TRUE, "object", ABSENT, "ringing", ABSENT, ""),
      ProviderResponse(TRUE, 200, TRUE, "null", ABSENT, ABSENT, ABSENT, ""),
      ProviderResponse(TRUE, 200, TRUE, "invalid", ABSENT, ABSENT, ABSENT, ""),
      ProviderResponse(TRUE, 200, FALSE, "none", ABSENT, ABSENT, ABSENT, "OK"),
      ProviderResponse(FALSE, 400, TRUE, "object", ABSENT, ABSENT, "Invalid number", ""),
      ProviderResponse(FALSE, 401, TRUE, "object", "CA9", ABSENT, ABSENT, ""),
      ProviderResponse(FALSE, 502, FALSE, "none", ABSENT, ABSENT, ABSENT, "Bad Gateway") }

CallIdle ==
    /\ route = "none" /\ env = <<>> /\ callReq = <<>> /\ provider = <<>>
    /\ callResp = <<>> /\ pcCall = "off"

CallInit ==
    /\ route \in {"twilio", "demo"}
    /\ env \in Envs
    /\ callReq \in CallRequests
    /\ provider = None /\ callResp = None /\ pcCall = "received"

\* the Twilio-backed handler runs on the request, the provider answering o
HandleCall ==
    /\ pcCall = "received" /\ route = "twilio"
    /\ \E o \in ProviderOutcomes :
         LET r == POSTCall(env, callReq, o)
         IN  /\ callResp' = Some(r.resp)
             /\ provider' = IF r.submitted = None THEN None
                            ELSE Some([request |-> r.submitted[1], answer |-> o])
    /\ pcCall' = "done"
    /\ UNCHANGED <<route, env, callReq, normVars, mergeVars, planVars, pageVars>>

\* the second handler runs on the request
HandleCallDemo ==
    /\ pcCall = "received" /\ route = "demo"
    /\ callResp' = Some(POSTCallDemo(callReq).resp)
    /\ provider' = None
    /\ pcCall' = "done"
    /\ UNCHANGED <<route, env, callReq, normVars, mergeVars, planVars, pageVars>>

CallNext == HandleCall \/ HandleCallDemo

----------------------------------------------------------------------------
(* POST /api/plan: app/api/plan/route.ts *)

FallbackIntent == "Make the requested call and achieve the stated outcome."

\* a CallPlan-shaped JSON body
PlanBody(intent, slots, required, ivr, safety) ==
    [intent |-> intent, slots |-> slots, required |-> required,
     ivr |-> ivr, safety |-> safety]

\* the outer catch: { intent: "", slots: {}, required: ["target","phone"] }
PlanErrorBody == PlanBody("", NoSlots, <<"target", "phone">>, None, None)

\* the minimal post-process of the parsed object: ensure shapes exist
PostProcess(parsed) ==
    PlanBody(parsed.intent,
             IF parsed.slots = None THEN NoSlots ELSE parsed.slots[1],
             IF parsed.required = None THEN <<"target", "phone">> ELSE parsed.required[1],
             IF parsed.ivr = None THEN Some(DefaultIvr) ELSE parsed.ivr,
             IF parsed.safety = None THEN Some(DefaultSafety) ELSE parsed.safety)

\* the inner catch: the fallback for text that JSON.parse rejects
ParseFallback ==
    [intent |-> FallbackIntent, slots |-> Some(NoSlots),
     required |-> Some(<<"target", "phone">>), ivr |-> None, safety |-> None]

\* POST of the plan route: the response, and whether the collaborator was
\* asked. The collaborator's answer g either rejects (kind "throw", the outer
\* catch), or gives a result whose text() throws (kind "blocked"), is not
\* JSON (parse "invalid"), is the JSON null (parse "null": the assignment to
\* parsed.slots throws into the outer catch) or is an object.
POSTPlan(req, g) ==
    IF req.parse # "ok"
    THEN [resp |-> [http |-> 200, body |-> PlanErrorBody], asked |-> FALSE]
    ELSE IF g.kind = "throw"
    THEN [resp |-> [http |-> 200, body |-> PlanErrorBody], asked |-> TRUE]
    ELSE IF g.kind = "blocked" \/ g.parse = "invalid"
    THEN [resp |-> [http |-> 200, body |-> PostProcess(ParseFallback)], asked |-> TRUE]
    ELSE IF g.parse = "null"
    THEN [resp |-> [http |-> 200, body |-> PlanErrorBody], asked |-> TRUE]
    ELSE [resp |-> [http |-> 200, body |-> PostProcess(g.object)], asked |-> TRUE]

----------------------------------------------------------------------------
(* Bounded inputs of POST /api/plan *)

Pizza    == <<"P", "i", "z", "z", "a">>
Dashed   == <<"5", "5", "5", "-", "1", "2", "3", "-", "4", "5", "6", "7">>
CallText == <<"c", "a", "l", "l">>

EmptyObject ==
    [intent |-> ABSENT, slots |-> None, required |-> None, ivr |-> None, safety |-> None]

CustomIvr ==
    [autoNavigate |-> FALSE, sendDigits |-> <<<<"2">>, <<"1">>>>, languagePref |-> "English"]
Emergency == [emergency |-> TRUE, warn |-> "Emergency calling policies vary."]

\* the objects the collaborator's text parses to: every field may be missing
GeminiObjects ==
    [intent   : {ABSENT, "Order a pizza"},
     slots    : {None,
                 Some([NoSlots EXCEPT !["target"] = Pizza]),
                 Some([target |-> Pizza, phone |-> Dashed, when |-> <<>>]),
                 Some([NoSlots EXCEPT !["phone"] = Canonical]),
                 Some([NoSlots EXCEPT !["phone"] = Null])},
     required : {None, Some(<<"target", "phone">>), Some(<<"target", "phone", "when">>),
                 Some(<<"target">>)},
     ivr      : {None, Some(CustomIvr)},
     safety   : {None, Some(Emergency)}]

GeminiOutcomes ==
    { [kind |-> "throw", parse |-> "none", object |-> EmptyObject],
      [kind |-> "blocked", parse |-> "none", object |-> EmptyObject],
      [kind |-> "text", parse |-> "invalid", object |-> EmptyObject],
      [kind |-> "text", parse |-> "null", object |-> EmptyObject] }
    \cup {[kind |-> "text", parse |-> "object", object |-> ob] : ob \in GeminiObjects}

PlanRequests ==
    {[parse |-> "ok", natural |-> n] : n \in {Undefined, <<>>, CallText}}
    \cup {[parse |-> "throws", natural |-> Undefined],
          [parse |-> "null", natural |-> Undefined]}

PlanIdle == planReq = <<>> /\ gemini = <<>> /\ planResp = <<>> /\ pcPlan = "off"

PlanInit ==
    /\ planReq \in PlanRequests
    /\ gemini = None /\ planResp = None /\ pcPlan = "received"

\* the plan handler runs on the request, the collaborator answering g
HandlePlan ==
    /\ pcPlan = "received"
    /\ \E g \in GeminiOutcomes :
         LET r == POSTPlan(planReq, g)
         IN  /\ planResp' = Some(r.resp)
             /\ gemini' = IF r.asked THEN Some(g) ELSE None
    /\ pcPlan' = "done"
    /\ UNCHANGED <<planReq, normVars, mergeVars, callVars, pageVars>>

PlanNext == HandlePlan

----------------------------------------------------------------------------
(* What a fetch of the page can come back with *)

\* the environments and collaborator answers a session's requests are served under
SessionEnvs ==
    { [accountSid |-> ABSENT, authToken |-> ABSENT, fromNumber |-> Undefined, voiceUrl |-> ABSENT],
      [accountSid |-> "AC1", authToken |-> "tok", fromNumber |-> Undefined, voiceUrl |-> ABSENT],
      [accountSid |-> "AC1", authToken |-> "tok", fromNumber |-> SourceNumber, voiceUrl |-> ABSENT] }

SessionGemini ==
    { [kind |-> "throw", parse |-> "none", object |-> EmptyObject],
      [kind |-> "blocked", parse |-> "none", object |-> EmptyObject],
      [kind |-> "text", parse |-> "invalid", object |-> EmptyObject],
      [kind |-> "text", parse |-> "object",
       object |-> [intent |-> "Order a pizza",
                   slots |-> Some([NoSlots EXCEPT !["target"] = Pizza]),
                   required |-> Some(<<"target", "phone">>), ivr |-> None, safety |-> None]],
      [kind |-> "text", parse |-> "object",
       object |-> [intent |-> "Order a pizza",
                   slots |-> Some([target |-> Pizza, phone |-> Dashed, when |-> <<>>]),
                   required |-> Some(<<"target", "phone", "when">>),
                   ivr |-> Some(CustomIvr), safety |-> None]],
      [kind |-> "text", parse |-> "object",
       object |-> [intent |-> ABSENT,
                   slots |-> Some([NoSlots EXCEPT !["phone"] = Canonical]),
                   required |-> Some(<<"target", "phone">>), ivr |-> None, safety |-> None]],
      [kind |-> "text", parse |-> "object",
       object |-> [intent |-> "Order a pizza",
                   slots |-> Some([NoSlots EXCEPT !["phone"] = Null]),
                   required |-> Some(<<"target">>), ivr |-> None, safety |-> Some(Emergency)]] }

\* res.ok
HttpOk(http) == 200 <= http /\ http <= 299

\* `${res.status}`
HttpText(http) ==
    CASE http = 200 -> "200" [] http = 201 -> "201" [] http = 400 -> "400"
      [] http = 401 -> "401" [] http = 500 -> "500" [] http = 502 -> "502"
      [] OTHER -> "0"

NoCallData == CallResult(0, NULL, ABSENT, ABSENT, Undefined, Undefined)

\* fetch("/api/call") as the page sees it: the fetch rejects, something in
\* front of the route answers without JSON or with broken JSON, or one of the
\* two routes answers
CallFetches(to) ==
    LET req == [parse |-> "ok", body |-> [to |-> to, from |-> Undefined, url |-> ABSENT]]
        Answer(r) == [kind |-> "response", ok |-> HttpOk(r.http), http |-> r.http,
                      isJson |-> TRUE, parses |-> TRUE, data |-> r]
    IN  { [kind |-> "throw", ok |-> FALSE, http |-> 0, isJson |-> FALSE, parses |-> FALSE,
           data |-> NoCallData],
          [kind |-> "response", ok |-> FALSE, http |-> 502, isJson |-> FALSE,
           parses |-> FALSE, data |-> NoCallData],
          [kind |-> "response", ok |-> TRUE, http |-> 200, isJson |-> FALSE,
           parses |-> FALSE, data |-> NoCallData],
          [kind |-> "response", ok |-> TRUE, http |-> 200, isJson |-> TRUE,
           parses |-> FALSE, data |-> NoCallData] }
        \cup {Answer(POSTCall(e, req, o).resp) : e \in SessionEnvs, o \in ProviderOutcomes}
        \cup {Answer(POSTCallDemo(req).resp)}

\* fetch("/api/plan") as the page sees it
PlanFetches(natural) ==
    LET req == [parse |-> "ok", natural |-> natural]
        Answer(r) == [kind |-> "response", ok |-> HttpOk(r.http), http |-> r.http,
                      parses |-> TRUE, data |-> r.body]
    IN  { [kind |-> "throw", ok |-> FALSE, http |-> 0, parses |-> FALSE, data |-> PlanErrorBody],
          [kind |-> "response", ok |-> FALSE, http |-> 502, parses |-> FALSE,
           data |-> PlanErrorBody],
          [kind |-> "response", ok |-> TRUE, http |-> 200, parses |-> FALSE,
           data |-> PlanErrorBody] }
        \cup {Answer(POSTPlan(req, g).resp) : g \in SessionGemini}

\* the sequence s without its i-th element
Without(s, i) == SubSeq(s, 1, i - 1) \o SubSeq(s, i + 1, Len(s))

----------------------------------------------------------------------------
(* The planner Home: page.tsx lines 27-324 *)

MaxInFlight == 2

NlInputs     == {<<>>, <<" ">>, CallText}
IntentInputs == {"Ask politely"}
SlotInputs(k) ==
    CASE k = "phone"  -> {<<>>, <<"1", "2", "3">>, <<"9", "1", "1">>, Dashed}
      [] k = "target" -> {<<>>, Pizza}
      [] k = "when"   -> {<<" ">>, <<"n", "o", "w">>}

\* the merge of the current render
Merged == merged(plan, manualSlots)

\* disabled={planning}
PlanButtonDisabled == planning

\* the "Start Call" button disabled on missing fields alone
StartCallDisabled_missingOnly == Merged.missing # <<>>

\* disabled={!!merged.missing?.length || calling}
StartCallDisabled == Merged.missing # <<>> \/ calling

\* the body startCall posts; slotsIvr is slots.ivr, the ivr key that the
\* spread of manualSlots puts among the merged slots
StartCallBody ==
    [to |-> Merged.slots["phone"],
     prebrief |-> [intent |-> Merged.intent, slots |-> Merged.slots, slotsIvr |-> manualIvr,
                   ivr |-> Merged.ivr, safety |-> Merged.safety, naturalInput |-> nl]]

\* the status startCall shows for what the fetch came back with
StartCallStatus(res) ==
    IF res.kind = "throw" \/ (res.isJson /\ ~res.parses)
    THEN <<"Error connecting to server">>
    ELSE LET hasData == res.isJson
         IN  IF ~res.ok
             THEN IF hasData /\ ~Falsy(res.data.error) THEN <<res.data.error>>
                  ELSE <<"Call failed (", HttpText(res.http), ")">>
             ELSE IF hasData /\ ~Falsy(res.data.sid)
                  THEN <<"Call started (", res.data.status, ")">>
                  ELSE IF hasData /\ ~Falsy(res.data.error) THEN <<res.data.error>>
                  ELSE <<"Failed to start call">>

\* onChange of the request box, and the effect that clears the status when
\* nl has changed
SetNl ==
    /\ view = "planner"
    /\ \E v \in NlInputs \ {nl} : nl' = v
    /\ status' = <<>>
    /\ UNCHANGED <<planning, plan, manualSlots, manualIvr, calling, flightVars, chatVars, serverVars>>

\* a click on "Plan with Gemini": planWithGemini up to its await
PlanWithGemini ==
    /\ view = "planner"
    /\ ~PlanButtonDisabled
    /\ IF Trim(nl) = <<>>
       THEN /\ status' = <<"Describe what you want the call to do.">>
            /\ UNCHANGED <<planning, planFlight>>
       ELSE /\ Len(planFlight) < MaxInFlight
            /\ planning' = TRUE
            /\ status' = <<>>
            /\ planFlight' = Append(planFlight, [natural |-> nl])
    /\ UNCHANGED <<nl, plan, manualSlots, manualIvr, calling, view, callFlight, chatVars, serverVars>>

\* planWithGemini with setPlanning(false) at the end of the try block instead
\* of in a finally
PlanSettled_noFinally ==
    /\ view = "planner"
    /\ \E i \in 1..Len(planFlight) :
         /\ planFlight' = Without(planFlight, i)
         /\ \E res \in PlanFetches(planFlight[i].natural) :
            IF res.kind = "throw" \/ ~res.parses
            THEN /\ status' = <<"Planner error. Try rephrasing.">>
                 /\ UNCHANGED <<plan, manualSlots, manualIvr, planning>>
            ELSE /\ plan' = Some(res.data)
                 /\ manualSlots' = res.data.slots
                 /\ manualIvr' = None
                 /\ planning' = FALSE
                 /\ UNCHANGED status
    /\ UNCHANGED <<nl, calling, view, callFlight, chatVars, serverVars>>

\* planWithGemini from its await on: the fetch settles
PlanSettled ==
    /\ view = "planner"
    /\ \E i \in 1..Len(planFlight) :
         /\ planFlight' = Without(planFlight, i)
         /\ \E res \in PlanFetches(planFlight[i].natural) :
            IF res.kind = "throw" \/ ~res.parses
            THEN /\ status' = <<"Planner error. Try rephrasing.">>
                 /\ UNCHANGED <<plan, manualSlots, manualIvr>>
            ELSE /\ plan' = Some(res.data)
                 /\ manualSlots' = res.data.slots
                 /\ manualIvr' = None
                 /\ UNCHANGED status
    /\ planning' = FALSE
    /\ UNCHANGED <<nl, calling, view, callFlight, chatVars, serverVars>>

\* onChange of the intent input
SetIntent ==
    /\ view = "planner"
    /\ plan # None
    /\ \E v \in IntentInputs : plan' = Some([plan[1] EXCEPT !.intent = v])
    /\ UNCHANGED <<nl, planning, manualSlots, manualIvr, status, calling, flightVars, chatVars, serverVars>>

\* the slot input placing the call itself once its value leaves nothing missing
EditSlot_startsCall ==
    /\ view = "planner"
    /\ \E k \in Keys :
         \E v \in SlotInputs(k) \ {IF IsNullish(Merged.slots[k]) THEN <<>> ELSE Merged.slots[k]} :
           /\ Merged.slots[k] # Undefined
           /\ manualSlots' = [manualSlots EXCEPT ![k] = v]
           /\ IF merged(plan, [manualSlots EXCEPT ![k] = v]).missing = <<>> /\ ~calling
              THEN /\ calling' = TRUE
                   /\ status' = <<"Dialing...">>
                   /\ callFlight' =
                        Append(callFlight,
                               [to |-> merged(plan, [manualSlots EXCEPT ![k] = v]).slots["phone"]])
              ELSE UNCHANGED <<calling, status, callFlight>>
    /\ UNCHANGED <<nl, planning, plan, manualIvr, view, planFlight, chatVars, serverVars>>

\* value={value ?? ""}: what the input of slot k shows
ShownSlot(k) == IF IsNullish(Merged.slots[k]) THEN <<>> ELSE Merged.slots[k]

\* onChange of the input of a slot the merge holds: the event carries a
\* value other than the one shown
EditSlot ==
    /\ view = "planner"
    /\ \E k \in Keys : \E v \in SlotInputs(k) \ {ShownSlot(k)} :
         /\ Merged.slots[k] # Undefined
         /\ manualSlots' = [manualSlots EXCEPT ![k] = v]
    /\ UNCHANGED <<nl, planning, plan, manualIvr, status, calling, flightVars, chatVars, serverVars>>

\* onChange of the phone input shown while the merge holds no phone (the
\* input shows "", so the event carries something else)
EditPhoneField ==
    /\ view = "planner"
    /\ Merged.slots["phone"] = Undefined
    /\ \E v \in SlotInputs("phone") \ {<<>>} :
         LET n == normalizePhoneNumber(v)
         IN  manualSlots' = [manualSlots EXCEPT !["phone"] = IF Truthy(n) THEN n ELSE v]
    /\ UNCHANGED <<nl, planning, plan, manualIvr, status, calling, flightVars, chatVars, serverVars>>

\* onChange of the target input shown while the merge holds no target
EditTargetField ==
    /\ view = "planner"
    /\ Merged.slots["target"] = Undefined
    /\ \E v \in SlotInputs("target") \ {<<>>} :
         manualSlots' = [manualSlots EXCEPT !["target"] = v]
    /\ UNCHANGED <<nl, planning, plan, manualIvr, status, calling, flightVars, chatVars, serverVars>>

\* a click on "Start Call": startCall up to its await
StartCall ==
    /\ view = "planner"
    /\ ~StartCallDisabled
    /\ Merged.missing = <<>>
    /\ Len(callFlight) < MaxInFlight
    /\ calling' = TRUE
    /\ status' = <<"Dialing...">>
    /\ callFlight' = Append(callFlight, [to |-> StartCallBody.to])
    /\ UNCHANGED <<nl, planning, plan, manualSlots, manualIvr, view, planFlight, chatVars, serverVars>>

\* startCall from its await on, with the form cleared as well
StartCallSettled_clearsForm ==
    /\ view = "planner"
    /\ \E i \in 1..Len(callFlight) :
         /\ callFlight' = Without(callFlight, i)
         /\ \E res \in CallFetches(callFlight[i].to) : status' = StartCallStatus(res)
    /\ calling' = FALSE
    /\ manualSlots' = NoSlots
    /\ UNCHANGED <<nl, planning, plan, manualIvr, view, planFlight, chatVars, serverVars>>

\* startCall from its await on: the fetch settles
StartCallSettled ==
    /\ view = "planner"
    /\ \E i \in 1..Len(callFlight) :
         /\ callFlight' = Without(callFlight, i)
         /\ \E res \in CallFetches(callFlight[i].to) : status' = StartCallStatus(res)
    /\ calling' = FALSE
    /\ UNCHANGED <<nl, planning, plan, manualSlots, manualIvr, view, planFlight, chatVars, serverVars>>

----------------------------------------------------------------------------
(* The IVR controls of the planner Home: page.tsx lines 247-291 *)

\* {}: an ivr object with no key set
NoIvrEdits == [autoNavigate |-> None, sendDigits |-> None, languagePref |-> None]

\* m.ivr || {}
ManualIvrOrEmpty == IF manualIvr = None THEN NoIvrEdits ELSE manualIvr[1]

\* s.split(/[^\d]/), cur being the piece under way
RECURSIVE SplitOnNonDigit(_, _)
SplitOnNonDigit(s, cur) ==
    IF s = <<>> THEN <<cur>>
    ELSE IF Head(s) \in Digit THEN SplitOnNonDigit(Tail(s), Append(cur, Head(s)))
    ELSE <<cur>> \o SplitOnNonDigit(Tail(s), <<>>)

NonEmpty(x) == x # <<>>

\* value.split(/[^\d]/).map((x) => x.trim()).filter(Boolean)
ParseSendDigits(value) ==
    LET pieces == SplitOnNonDigit(value, <<>>)
    IN  SelectSeq([i \in 1..Len(pieces) |-> Trim(pieces[i])], NonEmpty)

\* list.join(",")
RECURSIVE Join(_)
Join(list) ==
    IF list = <<>> THEN <<>>
    ELSE IF Len(list) = 1 THEN Head(list)
    ELSE Head(list) \o <<",">> \o Join(Tail(list))

\* checked={merged.ivr?.autoNavigate ?? true}
DisplayedAutoNavigate == IF Merged.ivr = None THEN TRUE ELSE Merged.ivr[1].autoNavigate

\* value={(merged.ivr?.sendDigits || []).join(",")}
DisplayedSendDigits == Join(IF Merged.ivr = None THEN <<>> ELSE Merged.ivr[1].sendDigits)

\* value={merged.ivr?.languagePref || ""}
DisplayedLanguagePref ==
    IF Merged.ivr = None \/ Falsy(Merged.ivr[1].languagePref) THEN ""
    ELSE Merged.ivr[1].languagePref

SendDigitsInputs == {<<"3", ",", " ", "1", "0">>}
LanguageInputs   == {"Spanish"}

\* a click on the "Auto-navigate menus" checkbox: the event carries the
\* opposite of what the box shows
EditAutoNavigate ==
    /\ view = "planner"
    /\ manualIvr' = Some([ManualIvrOrEmpty EXCEPT !.autoNavigate = Some(~DisplayedAutoNavigate)])
    /\ UNCHANGED <<nl, planning, plan, manualSlots, status, calling, flightVars, chatVars, serverVars>>

\* onChange of the digits input
EditSendDigits ==
    /\ view = "planner"
    /\ \E v \in SendDigitsInputs :
         manualIvr' = Some([ManualIvrOrEmpty EXCEPT !.sendDigits = Some(ParseSendDigits(v))])
    /\ UNCHANGED <<nl, planning, plan, manualSlots, status, calling, flightVars, chatVars, serverVars>>

\* onChange of the language input
EditLanguagePref ==
    /\ view = "planner"
    /\ \E v \in LanguageInputs :
         manualIvr' = Some([ManualIvrOrEmpty EXCEPT !.languagePref = Some(v)])
    /\ UNCHANGED <<nl, planning, plan, manualSlots, status, calling, flightVars, chatVars, serverVars>>

IvrNext == EditAutoNavigate \/ EditSendDigits \/ EditLanguagePref

PlannerInit ==
    /\ nl = <<>> /\ planning = FALSE /\ plan = None /\ manualSlots = NoSlots
    /\ manualIvr = None
    /\ status = <<>> /\ calling = FALSE

PlannerNext ==
    \/ SetNl \/ PlanWithGemini \/ PlanSettled \/ SetIntent
    \/ EditSlot \/ EditPhoneField \/ EditTargetField
    \/ StartCall \/ StartCallSettled

----------------------------------------------------------------------------
(* The chat Home: page.tsx lines 330-434 *)

NoCallStatus == [text |-> NULL, phone |-> Undefined, detail |-> ""]

\* disabled={loading}
SubmitDisabled == loading

\* slots?.phone ? String(slots.phone).trim() : ""
SubmitPhone(data) ==
    IF Truthy(data.slots["phone"]) THEN Trim(data.slots["phone"]) ELSE <<>>

\* onChange of the request input
SetRequest ==
    /\ view = "chat"
    /\ \E v \in NlInputs \ {request} : request' = v
    /\ UNCHANGED <<response, error, loading, callStatus, flightVars, plannerVars, serverVars>>

\* the form is submitted: handleSubmit up to its first await
HandleSubmit ==
    /\ view = "chat"
    /\ ~SubmitDisabled
    /\ IF Trim(request) = <<>>
       THEN /\ error' = "Please enter a request first."
            /\ response' = None
            /\ UNCHANGED <<loading, callStatus, planFlight>>
       ELSE /\ Len(planFlight) < MaxInFlight
            /\ loading' = TRUE
            /\ error' = NULL
            /\ response' = None
            /\ callStatus' = NoCallStatus
            /\ planFlight' = Append(planFlight, [natural |-> request])
    /\ UNCHANGED <<request, view, callFlight, plannerVars, serverVars>>

\* handleSubmit from its first await to its second: the plan fetch settles
\* and, when the plan carries a phone, the call is posted
SubmitPlanSettled ==
    /\ view = "chat"
    /\ \E i \in 1..Len(planFlight) :
         /\ planFlight' = Without(planFlight, i)
         /\ \E res \in PlanFetches(planFlight[i].natural) :
            IF res.kind = "throw" \/ ~res.ok \/ ~res.parses
            THEN /\ error' = IF res.kind = "throw" THEN "Failed to fetch"
                             ELSE IF ~res.ok THEN "Gemini request failed (" \o HttpText(res.http) \o ")"
                             ELSE "Unexpected token"
                 /\ callStatus' = NoCallStatus
                 /\ loading' = FALSE
                 /\ UNCHANGED <<response, callFlight>>
            ELSE /\ response' = Some(res.data)
                 /\ IF SubmitPhone(res.data) # <<>>
                    THEN /\ callStatus' = [text |-> "Dialing via Twilio...",
                                           phone |-> Undefined, detail |-> ""]
                         /\ callFlight' = Append(callFlight, [to |-> SubmitPhone(res.data)])
                         /\ UNCHANGED <<error, loading>>
                    ELSE /\ callStatus' =
                              [text |-> "Gemini response missing a phone number; skipped Twilio call.",
                               phone |-> Undefined, detail |-> ""]
                         /\ loading' = FALSE
                         /\ UNCHANGED <<error, callFlight>>
    /\ UNCHANGED <<request, view, plannerVars, serverVars>>

\* handleSubmit from its second await on: the call fetch settles
SubmitCallSettled ==
    /\ view = "chat"
    /\ \E i \in 1..Len(callFlight) :
         /\ callFlight' = Without(callFlight, i)
         /\ \E res \in CallFetches(callFlight[i].to) : callStatus' =
              IF res.kind = "throw" THEN [text |-> "Failed to fetch", phone |-> Undefined, detail |-> ""]
              ELSE IF ~(res.isJson /\ res.parses)
              THEN [text |-> "Unexpected token", phone |-> Undefined, detail |-> ""]
              ELSE IF ~res.ok
              THEN [text |-> IF ~Falsy(res.data.error) THEN res.data.error ELSE "Call failed",
                    phone |-> Undefined, detail |-> ""]
              ELSE [text |-> "Call queued to", phone |-> callFlight[i].to,
                    detail |-> IF ~Falsy(res.data.sid) THEN res.data.sid ELSE ""]
    /\ loading' = FALSE
    /\ UNCHANGED <<request, response, error, view, planFlight, plannerVars, serverVars>>

ChatInit ==
    /\ request = <<>> /\ response = None /\ error = NULL /\ loading = FALSE
    /\ callStatus = NoCallStatus

ChatNext == SetRequest \/ HandleSubmit \/ SubmitPlanSettled \/ SubmitCallSettled

----------------------------------------------------------------------------
(* Specifications *)

NormIdle == raw = <<>> /\ normalized = Null /\ pcNorm = "off"

NormInit == raw \in RawInputs /\ normalized = Null /\ pcNorm = "input"

ApplyNormalize ==
    /\ pcNorm = "input"
    /\ normalized' = normalizePhoneNumber(raw)
    /\ pcNorm' = "done"
    /\ UNCHANGED <<raw, mergeVars, callVars, planVars, pageVars>>

MergeIdle ==
    /\ mPlan = None /\ mOverrides = <<>> /\ mFirst = <<>> /\ mSecond = <<>>
    /\ pcMerge = "off"

NormNext == ApplyNormalize

PageIdle ==
    /\ view = "none" /\ planFlight = <<>> /\ callFlight = <<>>
    /\ PlannerInit /\ ChatInit

\* a session mounts one of the two Home components
Init ==
    /\ view \in {"planner", "chat"}
    /\ planFlight = <<>> /\ callFlight = <<>>
    /\ PlannerInit /\ ChatInit
    /\ NormIdle /\ MergeIdle /\ CallIdle /\ PlanIdle

Next == PlannerNext \/ ChatNext

Spec == Init /\ [][Next]_vars

\* a session of the planner Home in which the IVR controls are used as well
\* (they write manualSlots.ivr, which no handler of Next reads); the intent
\* input, which copies the plan's ivr as it is, is left alone
InitIvr == Init /\ view = "planner"

NextIvr ==
    \/ SetNl \/ PlanWithGemini \/ PlanSettled
    \/ EditSlot \/ EditPhoneField \/ EditTargetField
    \/ IvrNext
    \/ StartCall \/ StartCallSettled

SpecIvr == InitIvr /\ [][NextIvr]_vars

\* a step in which a request in flight settles: under Next these are the
\* steps of PlanSettled and SubmitPlanSettled, and of StartCallSettled and
\* SubmitCallSettled
PlanFetchSettles == \E i \in 1..Len(planFlight) : planFlight' = Without(planFlight, i)
CallFetchSettles == \E i \in 1..Len(callFlight) : callFlight' = Without(callFlight, i)

\* every fetch the page awaits settles (the server answers or the transport
\* fails) and the event loop then runs the continuation of the await
Settles == WF_planFlight(PlanFetchSettles) /\ WF_callFlight(CallFetchSettles)

SpecFair == Init /\ [][Next]_vars /\ Settles

InitNorm == NormInit /\ MergeIdle /\ CallIdle /\ PlanIdle /\ PageIdle

SpecNorm == InitNorm /\ [][NormNext]_vars

InitMerge == MergeInit /\ NormIdle /\ CallIdle /\ PlanIdle /\ PageIdle

SpecMerge == InitMerge /\ [][MergeNext]_vars

InitCall == CallInit /\ NormIdle /\ MergeIdle /\ PlanIdle /\ PageIdle

SpecCall == InitCall /\ [][CallNext]_vars

InitPlan == PlanInit /\ NormIdle /\ MergeIdle /\ CallIdle /\ PageIdle

SpecPlan == InitPlan /\ [][PlanNext]_vars

----------------------------------------------------------------------------
(* C4 *)

\* the digits of t, picked by position
DigitRun(t) ==
    LET idx == {i \in 1..Len(t) : t[i] \in Digit}
        RECURSIVE Take(_)
        Take(i) == IF i > Len(t) THEN <<>>
                   ELSE IF i \in idx THEN <<t[i]>> \o Take(i + 1)
                   ELSE Take(i + 1)
    IN  Take(1)

NormalizeReference(rawv) ==
    LET t == Trim(rawv)
        d == DigitRun(t)
    IN  CASE t = <<>>                          -> Null
          [] t # <<>> /\ t = <<"9", "1", "1">>  -> t
          [] t # <<>> /\ t # <<"9", "1", "1">> /\ Len(d) < 10 -> Null
          [] OTHER ->
               IF t[1] = "+" THEN <<"+">> \o d
               ELSE IF Len(d) = 11 /\ d[1] = "1" THEN <<"+">> \o d
               ELSE IF Len(d) = 10 THEN <<"+", "1">> \o d
               ELSE <<"+">> \o d

\* C4: for every raw string of the bounded input set, normalize(raw) is what
\* the reference operator gives: trim; empty -> failure; exactly "911" ->
\* "911"; fewer than 10 digits -> failure; leading '+' -> '+' and the digits;
\* 11 digits starting with 1 -> '+' and the digits; 10 digits -> '+1' and
\* the digits; any other digit run -> '+' and the digits.
C4_NormalizeMatchesReference ==
    pcNorm = "done" => normalized = NormalizeReference(raw)

\* a ten-digit domestic number with separators was normalised to +1...
C4_Witness ==
    /\ pcNorm = "done"
    /\ Len(StripNonDigits(raw)) = 10
    /\ ~StartsWith(Trim(raw), <<"+">>)
    /\ Len(raw) > 10
    /\ normalized = <<"+", "1">> \o StripNonDigits(raw)

----------------------------------------------------------------------------
(* C5 *)

\* the effective value of key k: the planner's slot with the override on top
EffectiveValue(planv, manual, k) ==
    LET planner == IF planv = None THEN Undefined ELSE planv[1].slots[k]
    IN  IF manual[k] # Undefined THEN manual[k] ELSE planner

\* absent, or empty after trimming
Unmet(v) == v \in {Undefined, Null} \/ \A i \in 1..Len(v) : v[i] \in Whitespace

RequiredOf(planv) == IF planv = None THEN <<"target", "phone">> ELSE planv[1].required

\* C5: the `missing` list of a merge is exactly the subsequence of the
\* plan's `required` list made of the keys whose effective value (planner
\* slot with the override on top) is absent or empty after trimming, in the
\* order of `required`.
C5_MissingIsUnmetRequired ==
    pcMerge \in {"first", "second"} =>
        LET UnmetKey(k) == Unmet(EffectiveValue(mPlan, mOverrides, k))
        IN  mFirst[1].missing = SelectSeq(RequiredOf(mPlan), UnmetKey)

\* required = [target, phone, when], only phone supplied: missing = [target, when]
C5_Witness ==
    /\ pcMerge = "first"
    /\ RequiredOf(mPlan) = <<"target", "phone", "when">>
    /\ mOverrides["phone"] = <<"5", "5", "5", "1", "2", "3", "4", "5", "6", "7">>
    /\ mFirst[1].missing = <<"target", "when">>

----------------------------------------------------------------------------
(* C10 *)

\* C10: merging again, with the slots of a first merge as the planner slots
\* and no overrides, gives the same `missing` list and leaves the phone slot,
\* canonical after the first merge, as it is.
C10_MergeIdempotent ==
    pcMerge = "second" =>
        /\ mSecond[1].missing = mFirst[1].missing
        /\ mSecond[1].slots["phone"] = mFirst[1].slots["phone"]

\* a second merge after a first one that normalised an override phone and
\* still reports a missing key
C10_Witness ==
    /\ pcMerge = "second"
    /\ mOverrides["phone"] # Undefined
    /\ mFirst[1].slots["phone"] # mOverrides["phone"]
    /\ mFirst[1].missing # <<>>
    /\ mSecond[1].missing = mFirst[1].missing

----------------------------------------------------------------------------
(* C2 *)

\* the provider account identity and secret are both set
Configured(e) == ~Falsy(e.accountSid) /\ ~Falsy(e.authToken)

\* C2: when the telephony provider is not configured, POST /call answers
\* missing-credentials for every request body, whatever its destination and
\* source: the credentials check comes before every other check.
C2_CredentialsCheckedFirst ==
    (pcCall = "done" /\ ~Configured(env)) =>
        callResp[1].status = "missing-credentials"

\* the same, of the Twilio-backed route alone
C2_TwilioRouteCredentialsFirst ==
    (pcCall = "done" /\ route = "twilio" /\ ~Configured(env)) =>
        /\ callResp[1].status = "missing-credentials"
        /\ callResp[1].http = 500
        /\ provider = None

----------------------------------------------------------------------------
(* C7 *)

\* the provider was asked and answered with a success status
Accepted ==
    /\ provider # None
    /\ provider[1].answer.kind = "response"
    /\ provider[1].answer.ok

\* the request was turned down before the provider was asked, the provider
\* refused it, or the exchange with the provider failed
RejectedOrFailed ==
    \/ provider = None
    \/ provider[1].answer.kind = "throw"
    \/ ~provider[1].answer.ok
    \/ provider[1].answer.isJson /\ provider[1].answer.json = "invalid"

\* C7: in every response of POST /call, sid is non-null only if the provider
\* accepted the request, and error is non-null only if the request was
\* rejected or failed at some layer.
C7_SidOnlyIfAccepted ==
    pcCall = "done" =>
        /\ callResp[1].sid # NULL => Accepted
        /\ callResp[1].error \notin {NULL, ABSENT} => RejectedOrFailed

\* the same, of the Twilio-backed route alone
C7_TwilioRouteSidOnlyIfAccepted ==
    (pcCall = "done" /\ route = "twilio") =>
        /\ callResp[1].sid # NULL => Accepted
        /\ callResp[1].error \notin {NULL, ABSENT} => RejectedOrFailed

----------------------------------------------------------------------------
(* C3 *)

\* the safe default plan
SafeDefaultPlan ==
    PlanBody("Make the requested call and achieve the stated outcome.",
             NoSlots, <<"target", "phone">>,
             Some([autoNavigate |-> TRUE, sendDigits |-> <<>>, languagePref |-> ABSENT]),
             Some([emergency |-> FALSE, warn |-> NULL]))

\* the request body could not be read, the collaborator threw or could not be
\* reached, or its text is not JSON
PlanningFailed ==
    \/ planReq.parse # "ok"
    \/ gemini # None /\ gemini[1].kind = "throw"
    \/ gemini # None /\ gemini[1].kind = "blocked"
    \/ gemini # None /\ gemini[1].kind = "text" /\ gemini[1].parse = "invalid"

\* C3: POST /plan answers 200 on every failure of the planning collaborator,
\* and the body is then the safe default plan.
C3_FailureYieldsSafeDefault ==
    (pcPlan = "done" /\ PlanningFailed) =>
        /\ planResp[1].http = 200
        /\ planResp[1].body = SafeDefaultPlan

\* what the route does do on every failure: 200, nothing extracted, and the
\* default required list
C3_FailureYields200 ==
    (pcPlan = "done" /\ PlanningFailed) =>
        /\ planResp[1].http = 200
        /\ planResp[1].body.slots = NoSlots
        /\ planResp[1].body.required = <<"target", "phone">>

----------------------------------------------------------------------------
(* C1 *)

\* this step posts a placement request
PlacementIssued == Len(callFlight') = Len(callFlight) + 1

\* every key of the required list of plan p has a value in slots sl that is
\* neither absent nor empty after trimming
RequiredMet(required, sl) ==
    \A i \in 1..Len(required) : ~Unmet(sl[required[i]])

\* the planner's slots with the user's overrides on top
EffectiveSlots == [k \in Keys |-> EffectiveValue(plan, manualSlots, k)]

\* C1: a placement request is issued only when every key of the plan's
\* required list has an effective slot value that is non-null and non-empty
\* after trimming. In the planner Home the plan is the one on screen; in the
\* chat Home it is the plan the response of this step brought.
C1_PlacementOnlyWhenRequiredMet ==
    [][PlacementIssued =>
          IF view = "planner"
          THEN RequiredMet(RequiredOf(plan), EffectiveSlots)
          ELSE RequiredMet(response'[1].required, response'[1].slots)]_vars

\* the same, of the planner Home alone
C1_PlannerPlacementOnlyWhenRequiredMet ==
    [][(PlacementIssued /\ view = "planner") =>
          RequiredMet(RequiredOf(plan), EffectiveSlots)]_vars

----------------------------------------------------------------------------
(* C6 *)

\* a result of the Normalizer: "911", or '+' followed by at least 10 digits
IsNormalized(v) ==
    \/ v = <<"9", "1", "1">>
    \/ /\ v \notin {Undefined, Null}
       /\ Len(v) >= 11
       /\ v[1] = "+"
       /\ \A i \in 2..Len(v) : v[i] \in Digit

\* C6: the destination of every placement request the session issues is a
\* result of the Normalizer.
C6_DestinationIsNormalized ==
    [][PlacementIssued => IsNormalized(callFlight'[Len(callFlight')].to)]_vars

----------------------------------------------------------------------------
(* C8 *)

\* C8: there are never two plan requests in flight at once and never two
\* placement requests in flight at once, and the control that starts a
\* request is disabled for as long as the request is in flight.
C8_OneRequestInFlight ==
    /\ Len(planFlight) <= 1
    /\ Len(callFlight) <= 1
    /\ (view = "planner" /\ planFlight # <<>>) => PlanButtonDisabled
    /\ (view = "planner" /\ callFlight # <<>>) => StartCallDisabled
    /\ (view = "chat" /\ (planFlight # <<>> \/ callFlight # <<>>)) => SubmitDisabled

\* the planner Home with a plan request and a placement request both in
\* flight, nothing missing, and both buttons disabled
C8_Witness ==
    /\ view = "planner"
    /\ Len(planFlight) = 1 /\ Len(callFlight) = 1
    /\ Merged.missing = <<>>
    /\ PlanButtonDisabled /\ StartCallDisabled

----------------------------------------------------------------------------
(* C9 *)

\* the status of a placement that started
CallStarted(st) == st # <<>> /\ st[1] = "Call started ("

\* this step ends a placement attempt of the planner Home in failure
PlacementFailed ==
    /\ view = "planner"
    /\ Len(callFlight') = Len(callFlight) - 1
    /\ ~CallStarted(status')

\* this step starts a placement attempt of the planner Home
PlacementStarted == view = "planner" /\ PlacementIssued

\* C9: a placement attempt that fails changes only the status message and
\* the in-flight flag: the plan, every slot value the user entered, the
\* request text and the computed `missing` list are as they were.
C9_FailedPlacementKeepsFields ==
    [][(PlacementStarted \/ PlacementFailed) =>
          /\ plan' = plan
          /\ manualSlots' = manualSlots
          /\ nl' = nl
          /\ planning' = planning
          /\ planFlight' = planFlight
          /\ merged(plan', manualSlots').missing = merged(plan, manualSlots).missing]_vars

\* after a placement that failed on the network: the user-entered target
\* and phone are still there and nothing is missing
C9_Witness ==
    /\ view = "planner"
    /\ status = <<"Error connecting to server">>
    /\ ~calling
    /\ manualSlots["target"] = Pizza
    /\ manualSlots["phone"] = Dashed
    /\ Merged.missing = <<>>

----------------------------------------------------------------------------
(* C11 *)

\* the value the session's plan gave for key k
PlanSlot(planv, k) == IF planv = None THEN Undefined ELSE planv[1].slots[k]

InRequired(planv, k) == \E i \in 1..Len(RequiredOf(planv)) : RequiredOf(planv)[i] = k

\* key k is reported as missing by the merge of planv and manual
ReportedMissing(planv, manual, k) ==
    \E i \in 1..Len(merged(planv, manual).missing) : merged(planv, manual).missing[i] = k

\* the user has answered k in this session: the plan gave no value for it
\* and the user's entry is not empty
Answered(k) == Unmet(PlanSlot(plan, k)) /\ ~Unmet(manualSlots[k])

\* this step stays in the collection session: no plan reply is handled
SameSession == view = "planner" /\ Len(planFlight') >= Len(planFlight)

\* C11 as claimed: within one collection session, a required field that has
\* been answered with a non-empty value is not reported as missing after any
\* later step, whatever edit the step makes to its value (clearing included).
C11_AnsweredNeverMissingAgain ==
    [][\A k \in Keys :
          (SameSession /\ InRequired(plan, k) /\ Answered(k)) =>
              ~ReportedMissing(plan', manualSlots', k)]_vars

\* C11 as amended: in the planner Home a key is reported as missing exactly
\* when it is required and its current value (the plan's slot with the
\* user's entry on top) is absent or empty after trimming; so within a
\* session an answered field stays off the list while its value stays
\* non-empty, and an edit that clears it puts it back on the list.
C11_MissingFollowsCurrentValue ==
    /\ [](view = "planner" =>
            LET miss == Merged.missing
            IN  \A k \in Keys :
                  (\E i \in 1..Len(miss) : miss[i] = k) <=>
                      (InRequired(plan, k) /\ Unmet(EffectiveValue(plan, manualSlots, k))))
    /\ [][\A k \in Keys :
            (SameSession /\ InRequired(plan, k) /\ Answered(k)) =>
                (ReportedMissing(plan', manualSlots', k) <=> Unmet(manualSlots'[k]))]_vars

\* no plan has arrived, the user answered target and phone and then cleared
\* target: target is reported as missing again, phone is not
C11_Witness ==
    /\ view = "planner"
    /\ plan = None
    /\ manualSlots["target"] = <<>>
    /\ ~Unmet(manualSlots["phone"])
    /\ Merged.missing = <<"target">>

----------------------------------------------------------------------------
(* C12 *)

\* this step is the user supplying a non-empty value for a required field
\* that was reported as missing
FieldSubmitted ==
    /\ SameSession
    /\ manualSlots' # manualSlots
    /\ \E k \in Keys :
         /\ ReportedMissing(plan, manualSlots, k)
         /\ manualSlots'[k] # manualSlots[k]
         /\ ~Unmet(manualSlots'[k])

----------------------------------------------------------------------------
(* C13 *)

\* C13 as claimed: every plan request and every placement request a session
\* starts is eventually followed by a state in which its in-flight flag is
\* false and its triggering control is enabled again.
C13_RequestsEndWithControlEnabled ==
    /\ (view = "planner" /\ planning) ~> (~planning /\ ~PlanButtonDisabled)
    /\ (view = "planner" /\ calling) ~> (~calling /\ ~StartCallDisabled)
    /\ (view = "chat" /\ loading) ~> (~loading /\ ~SubmitDisabled)

\* C13 as amended: every plan request and every placement request a session
\* starts is eventually followed by a state in which the request is no
\* longer in flight and its in-flight flag is false; the plan button and the
\* chat form's submit button are then enabled again, and "Start Call" is
\* enabled again unless a required field is missing by then (the slot
\* inputs stay editable while the placement is in flight).
C13_RequestsEndNotInFlight ==
    /\ (view = "planner" /\ planning) ~>
          (~planning /\ planFlight = <<>> /\ ~PlanButtonDisabled)
    /\ (view = "planner" /\ calling) ~>
          (~calling /\ callFlight = <<>> /\ (Merged.missing = <<>> => ~StartCallDisabled))
    /\ (view = "chat" /\ loading) ~>
          (~loading /\ planFlight = <<>> /\ callFlight = <<>> /\ ~SubmitDisabled)

\* the planner Home after a plan request that failed and a placement request
\* that failed on the network: neither is in flight, both buttons are enabled
C13_Witness ==
    /\ view = "planner"
    /\ plan = None
    /\ status = <<"Error connecting to server">>
    /\ ~planning /\ ~calling
    /\ planFlight = <<>> /\ callFlight = <<>>
    /\ ~PlanButtonDisabled /\ ~StartCallDisabled
    /\ Trim(nl) # <<>>

----------------------------------------------------------------------------
(* C14 *)

\* the ivr that a click on "Start Call" would forward now
ForwardedIvr == StartCallBody.prebrief.ivr

\* C14: after the user has edited an IVR field of the plan (autoNavigate,
\* sendDigits or languagePref), the ivr the page displays and the ivr it
\* forwards with the next placement request carry the edited value.
C14_IvrEditsCarried ==
    (view = "planner" /\ manualIvr # None) =>
        LET edits == manualIvr[1]
        IN  /\ edits.autoNavigate # None =>
                  /\ DisplayedAutoNavigate = edits.autoNavigate[1]
                  /\ ForwardedIvr # None
                  /\ ForwardedIvr[1].autoNavigate = edits.autoNavigate[1]
            /\ edits.sendDigits # None =>
                  /\ DisplayedSendDigits = Join(edits.sendDigits[1])
                  /\ ForwardedIvr # None
                  /\ ForwardedIvr[1].sendDigits = edits.sendDigits[1]
            /\ edits.languagePref # None =>
                  /\ DisplayedLanguagePref = edits.languagePref[1]
                  /\ ForwardedIvr # None
                  /\ ForwardedIvr[1].languagePref = edits.languagePref[1]

\* what the code does instead: the ivr displayed and forwarded is the one
\* the plan brought (or the default), whatever the IVR controls were given
C14_IvrIsThePlansIvr ==
    view = "planner" =>
        /\ ForwardedIvr = (IF plan = None THEN Some(DefaultIvr) ELSE plan[1].ivr)
        /\ DisplayedAutoNavigate = (IF ForwardedIvr = None THEN TRUE
                                    ELSE ForwardedIvr[1].autoNavigate)

====
